---- MODULE Spec2Model ----
(***************************************************************************)
(* A model of meetingbot.py: the SQLite meeting store, the /add guided     *)
(* entry conversation (python-telegram-bot ConversationHandler), the       *)
(* /list, /delete and /weekly commands, the weekly digest job, and the     *)
(* text parser / formatter of meeting times.                               *)
(*                                                                         *)
(* Strings that the code inspects character by character (the time input)  *)
(* are sequences of one-character strings; strings the code only copies    *)
(* (titles, descriptions, replies) are TLA+ strings.                       *)
(***************************************************************************)
EXTENDS Integers, Sequences, FiniteSets, TLC

(***************************************************************************)
(* Python values                                                           *)
(***************************************************************************)
\* Python's None
None == [tag |-> "None"]

\* an exception propagating out of an expression
Raised == [tag |-> "raise"]

IntVal(n) == [tag |-> "int", v |-> n]

\* an int of ten or more decimal digits, kept as its sign and its digits
BigInt(sign, digits) == [tag |-> "bigint", sign |-> sign, digits |-> digits]

(***************************************************************************)
(* str methods used by the parser                                          *)
(***************************************************************************)
Digits == <<"0", "1", "2", "3", "4", "5", "6", "7", "8", "9">>

IsDigit(ch) == \E i \in 1..10 : Digits[i] = ch

DigitVal(ch) == (CHOOSE i \in 1..10 : Digits[i] = ch) - 1

IsSpace(ch) == ch = " "

\* "-" in text
Contains(text, ch) == \E i \in 1..Len(text) : text[i] = ch

\* index of the first occurrence of ch (text.split(ch, 1) splits there)
FirstIndex(text, ch) == CHOOSE i \in 1..Len(text) : text[i] = ch /\ \A j \in 1..(i - 1) : text[j] # ch

\* s[a:b] with Python's clamping, 0-based a (inclusive) and b (exclusive)
Slice(s, a, b) == SubSeq(s, (IF a > Len(s) THEN Len(s) ELSE a) + 1, IF b > Len(s) THEN Len(s) ELSE b)

RECURSIVE lstrip(_)
lstrip(s) == IF s # <<>> /\ IsSpace(Head(s)) THEN lstrip(Tail(s)) ELSE s

RECURSIVE rstrip(_)
rstrip(s) == IF s # <<>> /\ IsSpace(s[Len(s)]) THEN rstrip(SubSeq(s, 1, Len(s) - 1)) ELSE s

\* str.strip()
strip(s) == rstrip(lstrip(s))

\* length of the leading run of non-space characters
RECURSIVE WordLen(_)
WordLen(s) == IF s = <<>> \/ IsSpace(Head(s)) THEN 0 ELSE 1 + WordLen(Tail(s))

\* str.split(): the maximal runs of non-space characters
RECURSIVE split(_)
split(s) ==
    LET t == lstrip(s)
    IN  IF t = <<>> THEN <<>>
        ELSE <<SubSeq(t, 1, WordLen(t))>> \o split(SubSeq(t, WordLen(t) + 1, Len(t)))

(***************************************************************************)
(* int(str): surrounding whitespace is dropped, one sign is allowed, then  *)
(* decimal digits, single underscores allowed between digits.              *)
(***************************************************************************)
\* digits with single underscores between them
RECURSIVE IsDigitRun(_)
IsDigitRun(s) ==
    /\ s # <<>>
    /\ IsDigit(Head(s))
    /\ \/ Len(s) = 1
       \/ IF s[2] = "_" THEN IsDigitRun(SubSeq(s, 3, Len(s))) ELSE IsDigitRun(Tail(s))

RECURSIVE DigitsValue(_)
DigitsValue(s) ==
    IF s = <<>> THEN 0
    ELSE IF s[Len(s)] = "_" THEN DigitsValue(SubSeq(s, 1, Len(s) - 1))
    ELSE 10 * DigitsValue(SubSeq(s, 1, Len(s) - 1)) + DigitVal(s[Len(s)])

\* the digits of a digit run from its first nonzero digit on, as numbers
RECURSIVE Significant(_)
Significant(s) ==
    IF s = <<>> THEN <<>>
    ELSE IF s[1] = "_" \/ (s[1] = "0" /\ Len(s) > 1) THEN Significant(Tail(s))
    ELSE LET NotUnderscore(ch) == ch # "_"
             digits == SelectSeq(s, NotUnderscore)
         IN  [i \in 1..Len(digits) |-> DigitVal(digits[i])]

int(str) ==
    LET s    == strip(str)
        sign == IF s # <<>> /\ s[1] = "-" THEN -1 ELSE 1
        body == IF s # <<>> /\ s[1] \in {"-", "+"} THEN Tail(s) ELSE s
    IN  IF ~IsDigitRun(body) THEN Raised
        ELSE IF Len(Significant(body)) <= 9 THEN IntVal(sign * DigitsValue(body))
        ELSE BigInt(sign, Significant(body))

(***************************************************************************)
(* datetime                                                                *)
(***************************************************************************)
IsLeap(y) == (y % 4 = 0) /\ ((y % 100 # 0) \/ (y % 400 = 0))

DaysInMonth(y, m) ==
    IF m = 2 THEN (IF IsLeap(y) THEN 29 ELSE 28)
    ELSE IF m \in {4, 6, 9, 11} THEN 30 ELSE 31

\* datetime.MINYEAR, datetime.MAXYEAR
MINYEAR == 1
MAXYEAR == 9999

\* a datetime value; sec is the second of the day (hour, minute, second), us
\* the microsecond
DateTime(y, m, d, sec, us) == [tag |-> "dt", year |-> y, month |-> m, day |-> d, sec |-> sec, us |-> us]

\* datetime(year, month, day, hour, minute, tzinfo=TIMEZONE) applied to the
\* results of int(): a failed int() propagates, an out-of-range field is a
\* ValueError or, past the width of a C int, an OverflowError
datetime(y, m, d, h, mi) ==
    IF Raised \in {y, m, d, h, mi} THEN Raised
    ELSE IF \E x \in {y, m, d, h, mi} : x.tag = "bigint" THEN Raised
    ELSE IF /\ y.v \in MINYEAR..MAXYEAR
            /\ m.v \in 1..12
            /\ d.v \in 1..DaysInMonth(y.v, m.v)
            /\ h.v \in 0..23
            /\ mi.v \in 0..59
         THEN DateTime(y.v, m.v, d.v, h.v * 3600 + mi.v * 60, 0)
         ELSE Raised

\* a point on the calendar as <<year, month, day, second of day>>
Wall(dt) == <<dt.year, dt.month, dt.day, dt.sec>>

\* lexicographic order on integer tuples of equal length
LexLess(a, b) == \E i \in 1..Len(a) : a[i] < b[i] /\ \A j \in 1..(i - 1) : a[j] = b[j]

LexLeq(a, b) == a = b \/ LexLess(a, b)

NextDay(w) ==
    IF w[3] < DaysInMonth(w[1], w[2]) THEN <<w[1], w[2], w[3] + 1, w[4]>>
    ELSE IF w[2] < 12 THEN <<w[1], w[2] + 1, 1, w[4]>>
    ELSE <<w[1] + 1, 1, 1, w[4]>>

PrevDay(w) ==
    IF w[3] > 1 THEN <<w[1], w[2], w[3] - 1, w[4]>>
    ELSE IF w[2] > 1 THEN <<w[1], w[2] - 1, DaysInMonth(w[1], w[2] - 1), w[4]>>
    ELSE <<w[1] - 1, 12, 31, w[4]>>

\* the OverflowError of datetime arithmetic, as a calendar point
Overflow == <<>>

\* datetime + timedelta(seconds=delta) on the calendar, |delta| < one day;
\* OverflowError outside MINYEAR..MAXYEAR
AddSecs(w, delta) ==
    LET s == w[4] + delta
        r == IF s < 0 THEN PrevDay(<<w[1], w[2], w[3], s + 86400>>)
             ELSE IF s >= 86400 THEN NextDay(<<w[1], w[2], w[3], s - 86400>>)
             ELSE <<w[1], w[2], w[3], s>>
    IN  IF r[1] \in MINYEAR..MAXYEAR THEN r ELSE Overflow

(***************************************************************************)
(* TIMEZONE = ZoneInfo("Asia/Singapore"): the UTC instants at which the    *)
(* zone's offset changes, with the offsets (seconds) on both sides.        *)
(***************************************************************************)
LMT == 24925

Transitions == <<
    [utc |-> <<1905,  5, 31, 61475>>, before |-> 24925, after |-> 25200],
    [utc |-> <<1932, 12, 31, 61200>>, before |-> 25200, after |-> 26400],
    [utc |-> <<1941,  8, 31, 60000>>, before |-> 26400, after |-> 27000],
    [utc |-> <<1942,  2, 15, 59400>>, before |-> 27000, after |-> 32400],
    [utc |-> <<1945,  9, 11, 54000>>, before |-> 32400, after |-> 27000],
    [utc |-> <<1981, 12, 31, 57600>>, before |-> 27000, after |-> 28800] >>

Max(a, b) == IF a > b THEN a ELSE b

\* the offset in force at a UTC instant (ZoneInfo.fromutc)
RECURSIVE OffsetAtUtc(_, _)
OffsetAtUtc(u, i) ==
    IF i = 0 THEN LMT
    ELSE IF LexLeq(Transitions[i].utc, u) THEN Transitions[i].after
    ELSE OffsetAtUtc(u, i - 1)

\* the offset of a wall-clock time with fold = 0 (ZoneInfo.utcoffset): a
\* transition counts once the wall clock has passed it under the larger of
\* its two offsets, so times inside a gap or an overlap keep the old offset
RECURSIVE OffsetAtWall(_, _)
OffsetAtWall(w, i) ==
    IF i = 0 THEN LMT
    ELSE IF LexLeq(AddSecs(Transitions[i].utc, Max(Transitions[i].before, Transitions[i].after)), w)
         THEN Transitions[i].after
    ELSE OffsetAtWall(w, i - 1)

utcoffset(dt) == OffsetAtWall(Wall(dt), Len(Transitions))

\* dt.isoformat() of a TIMEZONE datetime: the fields of the text
\* YYYY-MM-DDTHH:MM:SS[.ffffff]+HH:MM[:SS], every one of fixed width
isoformat(dt) ==
    [tag |-> "iso", year |-> dt.year, month |-> dt.month, day |-> dt.day,
     sec |-> dt.sec, us |-> dt.us, off |-> utcoffset(dt)]

\* the order of two ISO texts as SQLite compares TEXT columns (memcmp):
\* fields are zero padded, and a text without fraction continues with "+",
\* which sorts before the "." of a text with a fraction
IsoKey(t) == <<t.year, t.month, t.day, t.sec, t.us, t.off>>

\* (each key is worked out once: x and y are bound to its value)
IsoLeq(a, b) == \E x \in {IsoKey(a)}, y \in {IsoKey(b)} : LexLeq(x, y)

\* datetime.fromisoformat(ts).astimezone(TIMEZONE): to UTC with the text's
\* own offset, then to the zone's offset at that instant; OverflowError when
\* either step leaves MINYEAR..MAXYEAR (utc and loc are bound to the values
\* of the two steps)
astimezone(ts) ==
    CHOOSE dt \in {IF utc = Overflow THEN Raised
                   ELSE CHOOSE d \in {IF loc = Overflow THEN Raised
                                      ELSE DateTime(loc[1], loc[2], loc[3], loc[4], ts.us) :
                                          loc \in {AddSecs(utc, OffsetAtUtc(utc, Len(Transitions)))}} : TRUE :
                       utc \in {AddSecs(<<ts.year, ts.month, ts.day, ts.sec>>, 0 - ts.off)}} : TRUE

(***************************************************************************)
(* Parsing and formatting                                                  *)
(***************************************************************************)
\* the (start, end) pair parse_dt returns
Pair(a, b) == [tag |-> "pair", start |-> a, end |-> b]

NoResult == Pair(None, None)

\* the body of parse_dt's try block: Raised stands for any exception of
\* int() or datetime()
parse_dt_try(text) ==
    IF ~Contains(text, "-") THEN NoResult
    ELSE
        LET cut       == FirstIndex(text, "-")
            date_part == SubSeq(text, 1, cut - 1)
            time_part == SubSeq(text, cut + 1, Len(text))
            parts     == split(strip(date_part))
        IN  IF Len(parts) # 4 THEN NoResult
            ELSE
                LET year     == parts[1]
                    month    == parts[2]
                    day      == parts[3]
                    start_hm == parts[4]
                    end_hm   == strip(time_part)
                    start_dt == datetime(int(year), int(month), int(day),
                                         int(Slice(start_hm, 0, 2)), int(Slice(start_hm, 2, Len(start_hm))))
                    end_dt   == datetime(int(year), int(month), int(day),
                                         int(Slice(end_hm, 0, 2)), int(Slice(end_hm, 2, Len(end_hm))))
                IN  IF start_dt = Raised \/ end_dt = Raised THEN Raised
                    ELSE Pair(start_dt, end_dt)

\* a parser that also refuses an end that is not later than the start
parse_dt_ordered(text) ==
    IF parse_dt_try(text) = Raised THEN NoResult
    ELSE IF parse_dt_try(text) = NoResult THEN NoResult
    ELSE IF parse_dt_try(text).end.sec <= parse_dt_try(text).start.sec THEN NoResult
    ELSE parse_dt_try(text)

\* parse_dt: "except Exception: return None, None"
parse_dt(text) == IF parse_dt_try(text) = Raised THEN NoResult ELSE parse_dt_try(text)

parse_single_dt_try(text) ==
    LET parts == split(strip(text))
    IN  IF Len(parts) # 4 THEN None
        ELSE LET hm == parts[4]
             IN  datetime(int(parts[1]), int(parts[2]), int(parts[3]),
                          int(Slice(hm, 0, 2)), int(Slice(hm, 2, Len(hm))))

\* parse_single_dt: "except Exception: return None"
parse_single_dt(text) == IF parse_single_dt_try(text) = Raised THEN None ELSE parse_single_dt_try(text)

Pad2(n) == <<Digits[(n \div 10) + 1], Digits[(n % 10) + 1]>>

\* decimal digits of n > 0 without padding
RECURSIVE NumStr(_)
NumStr(n) == IF n < 10 THEN <<Digits[n + 1]>> ELSE NumStr(n \div 10) \o <<Digits[(n % 10) + 1]>>

\* dt.strftime('%H%M')
strftime_HM(dt) == Pad2(dt.sec \div 3600) \o Pad2((dt.sec % 3600) \div 60)

\* dt.strftime('%Y %m %d %H%M'); %Y of the C library, which pads no year
\* (all years used here have four digits)
strftime_YmdHM(dt) == NumStr(dt.year) \o <<" ">> \o Pad2(dt.month) \o <<" ">> \o Pad2(dt.day) \o <<" ">> \o strftime_HM(dt)

\* a row as the queries select it: (id, title, description, start_ts, end_ts)
\* fmt_meeting_row gives "id: [mid] title\n<when>[\ndesc: <desc>]"; the
\* result keeps the three parts apart, desc = <<>> when there is no desc line
fmt_meeting_row(row) ==
    LET start_dt == astimezone(row.start_ts)
        end_dt   == IF row.end_ts # None THEN astimezone(row.end_ts) ELSE None
    IN  IF start_dt = Raised \/ end_dt = Raised THEN Raised
        ELSE [tag   |-> "line",
              head  |-> <<row.id, row.title>>,
              when  |-> strftime_YmdHM(start_dt)
                        \o (IF row.end_ts # None THEN <<" ", "-", " ">> \o strftime_HM(end_dt) ELSE <<>>),
              desc  |-> IF row.description # <<>> THEN <<row.description>> ELSE <<>>]

(***************************************************************************)
(* Inputs                                                                  *)
(***************************************************************************)
Sp == <<" ">>
Dash == <<" ", "-", " ">>

\* "YYYY MM DD HHMM - HHMM" from its parts
RangeText(date, hm, end) == date \o Sp \o hm \o Dash \o end
SingleText(date, hm) == date \o Sp \o hm

D_2024_06_10 == <<"2", "0", "2", "4", " ", "0", "6", " ", "1", "0">>
D_1981_12_31 == <<"1", "9", "8", "1", " ", "1", "2", " ", "3", "1">>
D_1982_01_01 == <<"1", "9", "8", "2", " ", "0", "1", " ", "0", "1">>
D_2024_02_30 == <<"2", "0", "2", "4", " ", "0", "2", " ", "3", "0">>
D_2024_13_01 == <<"2", "0", "2", "4", " ", "1", "3", " ", "0", "1">>
D_2024_06    == <<"2", "0", "2", "4", " ", "0", "6">>
D_20x4_06_10 == <<"2", "0", "x", "4", " ", "0", "6", " ", "1", "0">>

HM_0005 == <<"0", "0", "0", "5">>
HM_0010 == <<"0", "0", "1", "0">>
HM_0900 == <<"0", "9", "0", "0">>
HM_0930 == <<"0", "9", "3", "0">>
HM_2340 == <<"2", "3", "4", "0">>
HM_2350 == <<"2", "3", "5", "0">>
HM_0960 == <<"0", "9", "6", "0">>
HM_2400 == <<"2", "4", "0", "0">>
HM_09x0 == <<"0", "9", "x", "0">>
HM_093  == <<"0", "9", "3">>
HM_09_30 == <<"0", "9", " ", "3", "0">>
HM_two  == <<"0", "9", "3", "0", " ", "1", "0", "0", "0">>
HM_none == <<>>

\* the scenario of the spec: "Standup" at 2024 06 10 0900 - 0930
TxtStandup == RangeText(D_2024_06_10, HM_0900, HM_0930)
TxtLater   == RangeText(D_2024_06_10, HM_0930, HM_0900)
TxtSingle  == SingleText(D_2024_06_10, HM_0900)
TxtNoTime  == <<"x">>
\* a wall-clock time Singapore skipped (23:30 became 00:00), and one after it
TxtGap     == RangeText(D_1981_12_31, HM_2340, HM_2350)
TxtAfter   == RangeText(D_1982_01_01, HM_0005, HM_0010)

Titles == {<<"a">>}
Descriptions == {<<"d">>}
TimeTexts == {TxtStandup, TxtSingle, TxtNoTime}
\* 2^63 as the user types it
TwoTo63 ==
    <<"9", "2", "2", "3", "3", "7", "2", "0", "3", "6", "8", "5", "4", "7", "7", "5", "8", "0", "8">>

DeleteArgs == {<<>>, <<<<"x">>>>, <<<<"1">>>>, <<<<"2">>>>, <<<<"9">>>>, <<TwoTo63>>}

\* field names with values for update_meeting_field: the four columns it
\* allows, three it does not, a name that is no column
UpdateInputs ==
    {<<"title", <<"b">>>>, <<"description", <<"b">>>>,
     <<"start_ts", isoformat(parse_dt(TxtLater).start)>>, <<"end_ts", None>>,
     <<"chat_id", 2>>, <<"created_at", DateTime(2024, 6, 3, 0, 0)>>, <<"id", 2>>, <<"x", <<"b">>>>}

\* who writes where: one user in both chats, or two users in chat 1
SameUser == {<<1, 1>>, <<2, 1>>}
SameChat == {<<1, 1>>, <<1, 2>>}
Memberships == {SameUser, SameChat}

\* which chats the range query or the send fails for
Breakages == {{}, {1}}

\* the time inputs under test
ParseDates == {D_2024_06_10, D_1981_12_31, D_2024_02_30, D_2024_13_01, D_2024_06, D_20x4_06_10}
ParseStarts == {HM_0900, HM_2340, HM_0960, HM_2400, HM_09x0, HM_093}
ParseEnds == {HM_0930, HM_2350, HM_0960, HM_09x0, HM_093, HM_09_30, HM_two, HM_none}
ParseTexts ==
    {RangeText(d, a, b) : d \in ParseDates, a \in ParseStarts, b \in ParseEnds}
        \cup {SingleText(d, a) : d \in ParseDates, a \in ParseStarts}

\* the time inputs of the store's operations and of the weekly job
StoreTimes == {TxtStandup, TxtLater, TxtGap, TxtAfter}
RangeTimes == {TxtStandup, TxtLater}
WeeklyTimes == {TxtStandup}
FlowTimes == {TxtStandup, TxtLater, TxtGap, TxtNoTime}

\* parse_dt tabulated over the time inputs of the handlers and operations
\* (evaluated once)
Parsed == [t \in TimeTexts \cup StoreTimes \cup WeeklyTimes |-> parse_dt(t)]

\* clock values: a Monday morning, one week before 2024-06-10 09:00, and
\* that time
Clock0 == DateTime(2024, 6, 3, 8 * 3600, 0)
ClockValues == {DateTime(2024, 6, 3, 9 * 3600, 0), DateTime(2024, 6, 10, 9 * 3600, 0)}

\* clock values around the start of the 2024-06-10 09:00 meeting and one
\* week before it: a second before one week before, one week before, the
\* start itself, half a second and a second after it
StoreClocks ==
    {DateTime(2024, 6, 3, 9 * 3600 - 1, 0), DateTime(2024, 6, 3, 9 * 3600, 0),
     DateTime(2024, 6, 10, 9 * 3600, 0), DateTime(2024, 6, 10, 9 * 3600, 500000),
     DateTime(2024, 6, 10, 9 * 3600 + 1, 0)}

NoMessage == [chat |-> 0, text |-> "", body |-> <<>>, at |-> None]


(***************************************************************************)
(* State                                                                   *)
(***************************************************************************)
\* Conversation states (range(7)) and ConversationHandler.END
ADD_TITLE == 0
ADD_DESC == 1
ADD_START == 2
END == -1

\* the chats and the users that write in them
Chats == {1, 2}
Users == {1, 2}

\* AUTOINCREMENT stops handing out ids here; so many meetings are ever added
MaxId == 2

\* the weekly job fires at most so many times
MaxFirings == 1

VARIABLES
    conv,       \* ConversationHandler's conversations: (chat_id, user_id) -> state, END when absent
    user_data,  \* Application.user_data: user_id -> <<>> or <<new_meeting dict>>
    store,      \* the rows of table meetings, in rowid order
    seq,        \* sqlite_sequence of meetings: the largest id ever assigned
    now,        \* datetime.now(TIMEZONE) at this moment
    reply,      \* the last update.message.reply_text: [chat, text, body]
    tasks,      \* the send_weekly_for_chat tasks created and not yet run: [firing, chat]
    firings,    \* per firing of the weekly job: the chats that had a stored meeting at that moment
    sent,       \* the last message bot.send_message delivered: [chat, text, body, at]
    count,      \* per firing and chat: the messages its tasks delivered
    failed,     \* the tasks that ended in an exception: [firing, chat]
    broken,     \* the chats for which the range query or the send fails
    members,    \* who writes where: the (chat_id, user_id) that send updates
    partial,    \* (chat_id, user_id) -> what the live conversation was told so far: <<>> or <<dict>>
    probe       \* a time input under test and what the parser and the formatter made of it

\* the weekly job's bookkeeping
jobvars == <<tasks, firings, count, failed>>

\* what no operation of the program changes
envvars == <<broken, members, probe>>

vars == <<conv, user_data, store, seq, now, reply, tasks, firings, sent, count, failed, broken, members,
          partial, probe>>

Keys == Chats \X Users

Reply(c, text, body) == [chat |-> c, text |-> text, body |-> body]

\* a handler that ended in an exception replies nothing
NoReply(c) == Reply(c, "", <<>>)

(***************************************************************************)
(* DB helpers                                                              *)
(***************************************************************************)
\* an INSERT into a table without AUTOINCREMENT: the id is one more than the
\* largest id stored
add_meeting_rowid(rows, lastid, chat_id, title, description, start_dt, end_dt, created) ==
    LET ids == {rows[i].id : i \in 1..Len(rows)}
        top == IF ids = {} THEN 0 ELSE CHOOSE i \in ids : \A j \in ids : j <= i
    IN  Append(rows, [id          |-> top + 1,
                      chat_id     |-> chat_id,
                      title       |-> title,
                      description |-> description,
                      start_ts    |-> isoformat(start_dt),
                      end_ts      |-> IF end_dt # None THEN isoformat(end_dt) ELSE None,
                      created_at  |-> created])

\* INSERT INTO meetings: the id is one more than the largest ever assigned
\* (description or "" changes no description the handlers pass)
add_meeting(rows, lastid, chat_id, title, description, start_dt, end_dt, created) ==
    Append(rows, [id          |-> lastid + 1,
                  chat_id     |-> chat_id,
                  title       |-> title,
                  description |-> description,
                  start_ts    |-> isoformat(start_dt),
                  end_ts      |-> IF end_dt # None THEN isoformat(end_dt) ELSE None,
                  created_at  |-> created])

\* ORDER BY start_ts: insertion sort on the TEXT order, ties in rowid order
RECURSIVE InsertByStart(_, _)
InsertByStart(sorted, r) ==
    IF sorted = <<>> THEN <<r>>
    ELSE IF IsoLeq(Head(sorted).start_ts, r.start_ts) THEN <<Head(sorted)>> \o InsertByStart(Tail(sorted), r)
    ELSE <<r>> \o sorted

\* a query without ORDER BY: the rows in rowid order
Unordered(rows) == rows

RECURSIVE OrderByStart(_)
OrderByStart(rows) ==
    IF rows = <<>> THEN <<>>
    ELSE InsertByStart(OrderByStart(SubSeq(rows, 1, Len(rows) - 1)), rows[Len(rows)])

\* SELECT ... WHERE chat_id = ? ORDER BY start_ts
list_meetings_for_chat(rows, chat_id) ==
    LET Mine(r) == r.chat_id = chat_id
    IN  OrderByStart(SelectSeq(rows, Mine))

\* 2^63 - 1 and 2^63 in decimal digits: SQLite's INTEGER has 64 bits
SqliteMax == <<9, 2, 2, 3, 3, 7, 2, 0, 3, 6, 8, 5, 4, 7, 7, 5, 8, 0, 7>>
SqliteMin == <<9, 2, 2, 3, 3, 7, 2, 0, 3, 6, 8, 5, 4, 7, 7, 5, 8, 0, 8>>

\* cur.execute(query, params) takes the int n for a "?": sqlite3 raises
\* OverflowError for an int outside -2^63 .. 2^63 - 1
Binds(n) ==
    \/ n.tag = "int"
    \/ Len(n.digits) < Len(SqliteMax)
    \/ /\ Len(n.digits) = Len(SqliteMax)
       /\ LexLeq(n.digits, IF n.sign = 1 THEN SqliteMax ELSE SqliteMin)

\* the stored ids have fewer than ten digits: a bound int of ten or more
\* digits is looked up as a number past all of them
Beyond == 1000000000

IdValue(n) == IF n.tag = "int" THEN n.v ELSE n.sign * Beyond

\* SELECT ... WHERE id = ?; rows[0] if rows else None
get_meeting(rows, meeting_id) ==
    LET Hit(r) == r.id = meeting_id
        found  == SelectSeq(rows, Hit)
    IN  IF found # <<>> THEN found[1] ELSE None

\* the exceptions of update_meeting_field: its own ValueError, and sqlite3's
\* OperationalError for a name that is no column
InvalidField == [tag |-> "raise", error |-> "ValueError: invalid field"]
OperationalError == [tag |-> "raise", error |-> "OperationalError: no such column"]

\* the columns of the table meetings
Columns == {"id", "chat_id", "title", "description", "start_ts", "end_ts", "created_at"}

Updated(rows) == [tag |-> "ok", rows |-> rows]

\* UPDATE meetings SET {field} = ? WHERE id = ?, for any column and a value
\* the column takes
update_column(rows, meeting_id, field, value) ==
    IF field \notin Columns THEN OperationalError
    ELSE Updated([i \in 1..Len(rows) |->
                     IF rows[i].id = meeting_id THEN [rows[i] EXCEPT ![field] = value] ELSE rows[i]])

\* the update without the allow-list
update_any_field(rows, meeting_id, field, value) == update_column(rows, meeting_id, field, value)

update_meeting_field(rows, meeting_id, field, value) ==
    IF field \notin {"title", "description", "start_ts", "end_ts"} THEN InvalidField
    ELSE update_column(rows, meeting_id, field, value)

\* DELETE FROM meetings WHERE id = ?
delete_meeting(rows, meeting_id) ==
    LET Other(r) == r.id # meeting_id
    IN  SelectSeq(rows, Other)

\* the range query with start_ts < ? for its upper bound
meetings_before(rows, chat_id, start_dt, end_dt) ==
    LET InRange(r) == /\ r.chat_id = chat_id
                      /\ IsoLeq(isoformat(start_dt), r.start_ts)
                      /\ ~IsoLeq(isoformat(end_dt), r.start_ts)
    IN  OrderByStart(SelectSeq(rows, InRange))

\* the range query without chat_id = ?
meetings_any_chat(rows, chat_id, start_dt, end_dt) ==
    LET InRange(r) == /\ IsoLeq(isoformat(start_dt), r.start_ts)
                      /\ IsoLeq(r.start_ts, isoformat(end_dt))
    IN  OrderByStart(SelectSeq(rows, InRange))

\* SELECT ... WHERE chat_id = ? AND start_ts >= ? AND start_ts <= ? ORDER BY start_ts
meetings_in_range(rows, chat_id, start_dt, end_dt) ==
    LET InRange(r) == /\ r.chat_id = chat_id
                      /\ IsoLeq(isoformat(start_dt), r.start_ts)
                      /\ IsoLeq(r.start_ts, isoformat(end_dt))
    IN  OrderByStart(SelectSeq(rows, InRange))

\* SELECT DISTINCT chat_id FROM meetings, in order of first appearance
RECURSIVE distinct_chats(_)
distinct_chats(rows) ==
    IF rows = <<>> THEN <<>>
    ELSE LET before == distinct_chats(SubSeq(rows, 1, Len(rows) - 1))
             c      == rows[Len(rows)].chat_id
         IN  IF \E i \in 1..Len(before) : before[i] = c THEN before ELSE Append(before, c)

(***************************************************************************)
(* The /add conversation.  ConversationHandler keeps one state per         *)
(* (chat_id, user_id) (per_chat and per_user are on by default), and       *)
(* ctx.user_data is the dict of the user alone, whatever the chat.         *)
(* Updates are handled one at a time, so a handler is one step.            *)
(***************************************************************************)
\* d[k] = v on a dict
DictSet(d, k, v) == [x \in DOMAIN d \cup {k} |-> IF x = k THEN v ELSE d[x]]

\* d.get(k, default)
DictGet(d, k, default) == IF k \in DOMAIN d THEN d[k] ELSE default

HandlerDone(c, text) == reply' = Reply(c, text, <<>>)

\* an exception in a handler: the conversation keeps its state and nothing
\* is replied
HandlerRaised(c) ==
    /\ reply' = NoReply(c)
    /\ UNCHANGED <<conv, user_data, partial, store, seq>>

\* entry point CommandHandler("add"): only with no conversation for the key
add_start(c, u) ==
    /\ conv[<<c, u>>] = END
    /\ conv' = [conv EXCEPT ![<<c, u>>] = ADD_TITLE]
    /\ partial' = [partial EXCEPT ![<<c, u>>] = <<>>]
    /\ HandlerDone(c, "Send meeting title:")
    /\ UNCHANGED <<user_data, store, seq, now, sent, jobvars, envvars>>

add_title(c, u, text) ==
    /\ conv[<<c, u>>] = ADD_TITLE
    /\ user_data' = [user_data EXCEPT ![u] = <<[title |-> strip(text)]>>]
    /\ partial' = [partial EXCEPT ![<<c, u>>] = <<[title |-> strip(text)]>>]
    /\ conv' = [conv EXCEPT ![<<c, u>>] = ADD_DESC]
    /\ HandlerDone(c, "Send a description (or /skip):")
    /\ UNCHANGED <<store, seq, now, sent, jobvars, envvars>>

\* ctx.user_data["new_meeting"]["description"] = value: KeyError without
\* new_meeting
SetDescription(c, u, value) ==
    IF user_data[u] = <<>> THEN HandlerRaised(c)
    ELSE /\ user_data' = [user_data EXCEPT ![u] = <<DictSet(user_data[u][1], "description", value)>>]
         /\ partial' = [partial EXCEPT ![<<c, u>>] = <<DictSet(partial[<<c, u>>][1], "description", value)>>]
         /\ conv' = [conv EXCEPT ![<<c, u>>] = ADD_START]
         /\ HandlerDone(c, "Send date/time range (YYYY MM DD HHMM - HHMM):")
         /\ UNCHANGED <<store, seq>>

add_desc(c, u, text) ==
    /\ conv[<<c, u>>] = ADD_DESC
    /\ SetDescription(c, u, strip(text))
    /\ UNCHANGED <<now, sent, jobvars, envvars>>

add_skip_desc(c, u) ==
    /\ conv[<<c, u>>] = ADD_DESC
    /\ SetDescription(c, u, <<>>)
    /\ UNCHANGED <<now, sent, jobvars, envvars>>

\* nm = ctx.user_data.get("new_meeting", {}); nm["title"] is a KeyError on
\* the empty dict.  (nm["start"] and nm["end"] are written and never read.)
add_start_dt(c, u, text) ==
    /\ conv[<<c, u>>] = ADD_START
    /\ LET parsed == Parsed[strip(text)]
           nm     == IF user_data[u] = <<>> THEN <<>> ELSE user_data[u][1]
       IN  IF parsed.start = None
           THEN /\ HandlerDone(c, "Couldn't parse. Format: YYYY MM DD HHMM - HHMM")
                /\ partial' = [partial EXCEPT ![<<c, u>>] = <<DictSet(partial[<<c, u>>][1], "reprompted", TRUE)>>]
                /\ UNCHANGED <<conv, user_data, store, seq>>
           ELSE IF "title" \notin DOMAIN nm THEN HandlerRaised(c)
           ELSE /\ seq < MaxId
                /\ store' = add_meeting(store, seq, c, nm["title"], DictGet(nm, "description", <<>>),
                                        parsed.start, parsed.end, now)
                /\ seq' = seq + 1
                /\ conv' = [conv EXCEPT ![<<c, u>>] = END]
                /\ partial' = [partial EXCEPT ![<<c, u>>] = <<>>]
                /\ HandlerDone(c, "Meeting added")
                /\ UNCHANGED user_data
    /\ UNCHANGED <<now, sent, jobvars, envvars>>

\* a /cancel that ends the conversation and keeps new_meeting
add_cancel_keep(c, u) ==
    /\ conv[<<c, u>>] # END
    /\ conv' = [conv EXCEPT ![<<c, u>>] = END]
    /\ partial' = [partial EXCEPT ![<<c, u>>] = <<>>]
    /\ HandlerDone(c, "Add cancelled.")
    /\ UNCHANGED <<user_data, store, seq, now, sent, jobvars, envvars>>

\* fallback CommandHandler("cancel"): in any state of a live conversation
add_cancel(c, u) ==
    /\ conv[<<c, u>>] # END
    /\ user_data' = [user_data EXCEPT ![u] = <<>>]
    /\ conv' = [conv EXCEPT ![<<c, u>>] = END]
    /\ partial' = [partial EXCEPT ![<<c, u>>] = <<>>]
    /\ HandlerDone(c, "Add cancelled.")
    /\ UNCHANGED <<store, seq, now, sent, jobvars, envvars>>

(***************************************************************************)
(* /start, /list, /delete                                                  *)
(***************************************************************************)
start(c, u) ==
    /\ HandlerDone(c, "Hi! I'm your MeetingBot.")
    /\ UNCHANGED <<conv, user_data, partial, store, seq, now, sent, jobvars, envvars>>

AnyRaised(s) == \E i \in 1..Len(s) : s[i] = Raised

list_cmd(c, u) ==
    /\ LET rows == list_meetings_for_chat(store, c)
           out  == [i \in 1..Len(rows) |-> fmt_meeting_row(rows[i])]
       IN  IF rows = <<>> THEN reply' = Reply(c, "No meetings stored.", <<>>)
           ELSE IF AnyRaised(out) THEN reply' = NoReply(c)
           ELSE reply' = Reply(c, "list", out)
    /\ UNCHANGED <<conv, user_data, partial, store, seq, now, sent, jobvars, envvars>>

\* a /delete that does not compare the meeting's chat with the sender's
delete_any_chat(c, u, args) ==
    /\ IF args = <<>> THEN HandlerDone(c, "Usage: /delete <id>") /\ UNCHANGED store
       ELSE IF int(args[1]) = Raised THEN HandlerDone(c, "ID must be a number.") /\ UNCHANGED store
       ELSE IF ~Binds(int(args[1])) THEN HandlerRaised(c)
       ELSE LET mid == IdValue(int(args[1]))
                m   == get_meeting(store, mid)
            IN  IF m = None THEN HandlerDone(c, "No meeting with that ID.") /\ UNCHANGED store
                ELSE /\ store' = delete_meeting(store, mid)
                     /\ HandlerDone(c, "Deleted")
    /\ UNCHANGED <<conv, user_data, partial, seq, now, sent, jobvars, envvars>>

\* delete_cmd; args are the words after the command.  get_meeting raises
\* when the id does not bind, and the handler with it.
delete_cmd(c, u, args) ==
    /\ IF args = <<>> THEN HandlerDone(c, "Usage: /delete <id>") /\ UNCHANGED store
       ELSE IF int(args[1]) = Raised THEN HandlerDone(c, "ID must be a number.") /\ UNCHANGED store
       ELSE IF ~Binds(int(args[1])) THEN HandlerRaised(c)
       ELSE LET mid == IdValue(int(args[1]))
                m   == get_meeting(store, mid)
            IN  IF m = None THEN HandlerDone(c, "No meeting with that ID.") /\ UNCHANGED store
                ELSE IF m.chat_id # c
                     THEN HandlerDone(c, "You can only delete meetings in this chat.") /\ UNCHANGED store
                ELSE /\ store' = delete_meeting(store, mid)
                     /\ HandlerDone(c, "Deleted")
    /\ UNCHANGED <<conv, user_data, partial, seq, now, sent, jobvars, envvars>>

(***************************************************************************)
(* The weekly digest                                                       *)
(***************************************************************************)
\* now + timedelta(days=7), the wall clock's fields moved seven days on (the
\* system clock is far from MAXYEAR)
PlusWeek(dt) ==
    LET last == DaysInMonth(dt.year, dt.month)
    IN  IF dt.day + 7 <= last THEN DateTime(dt.year, dt.month, dt.day + 7, dt.sec, dt.us)
        ELSE IF dt.month < 12 THEN DateTime(dt.year, dt.month + 1, dt.day + 7 - last, dt.sec, dt.us)
        ELSE DateTime(dt.year + 1, 1, dt.day + 7 - last, dt.sec, dt.us)

\* one numbered entry of the digest, from the row and its converted times
weekly_entry(i, r, start_dt, end_dt) ==
    IF start_dt = Raised \/ end_dt = Raised THEN Raised
    ELSE [tag   |-> "part",
          n     |-> i,
          head  |-> <<r.id, r.title>>,
          when  |-> strftime_YmdHM(start_dt)
                    \o (IF r.end_ts # None THEN <<" ", "-", " ">> \o strftime_HM(end_dt) ELSE <<>>),
          desc  |-> IF r.description # <<>> THEN <<r.description>> ELSE <<>>]

\* the entry of row r (s and e are bound to the converted times)
weekly_part(i, r) ==
    CHOOSE part \in {weekly_entry(i, r, s, e) :
                        s \in {astimezone(r.start_ts)},
                        e \in {IF r.end_ts # None THEN astimezone(r.end_ts) ELSE None}} : TRUE

\* the message with an empty text when the range query found nothing
weekly_message_blank(chat_id, t, found) ==
    LET parts == [i \in 1..Len(found) |-> weekly_part(i, found[i])]
    IN  IF found = <<>>
        THEN [chat |-> chat_id, text |-> "", body |-> <<>>, at |-> t]
        ELSE IF AnyRaised(parts) THEN Raised
        ELSE [chat |-> chat_id, text |-> "Your upcoming meetings (next 7 days):", body |-> parts, at |-> t]

\* the message for the rows the range query found, Raised when formatting
\* a row fails
weekly_message(chat_id, t, found) ==
    LET parts == [i \in 1..Len(found) |-> weekly_part(i, found[i])]
    IN  IF found = <<>>
        THEN [chat |-> chat_id, text |-> "No meetings scheduled for the next 7 days.", body |-> <<>>, at |-> t]
        ELSE IF AnyRaised(parts) THEN Raised
        ELSE [chat |-> chat_id, text |-> "Your upcoming meetings (next 7 days):", body |-> parts, at |-> t]

\* the message send_weekly_for_chat builds for a chat at time t (found is
\* bound to the result of the one range query)
weekly_text(rows, chat_id, t) ==
    CHOOSE msg \in {weekly_message(chat_id, t, found) :
                       found \in {meetings_in_range(rows, chat_id, t, PlusWeek(t))}} : TRUE

\* send_weekly_for_chat delivers: the query or the send fails for a broken
\* chat, and formatting may raise
Delivers(chat_id) == chat_id \notin broken /\ weekly_text(store, chat_id, now) # Raised

\* /weekly: the digest for the requesting chat, then the confirmation
weekly_now(c, u) ==
    /\ IF Delivers(c)
       THEN /\ sent' = weekly_text(store, c, now)
            /\ HandlerDone(c, "Weekly schedule sent.")
       ELSE /\ reply' = NoReply(c)
            /\ UNCHANGED sent
    /\ UNCHANGED <<conv, user_data, partial, store, seq, now, jobvars, envvars>>

\* the chats the job enumerates
JobChats(rows) == distinct_chats(rows)

\* scheduled_weekly_job: one create_task per enumerated chat, in that order.
\* main() has the job called by a BackgroundScheduler, that is in a thread
\* of its pool and not in the thread of the application's event loop.
\* Application.create_task hands the coroutine to asyncio.create_task, which
\* needs the running loop of the calling thread and raises RuntimeError
\* without one; a task handed to the loop from another thread is what the
\* call was written for.  Both outcomes are kept: every task is created, or
\* the first create_task raises, which ends the loop over the chats and the
\* job with no task created.
scheduled_weekly_job ==
    /\ Len(firings) < MaxFirings
    /\ LET f     == Len(firings) + 1
           chats == JobChats(store)
       IN  /\ \/ tasks' = tasks \o [i \in 1..Len(chats) |-> [firing |-> f, chat |-> chats[i]]]
              \/ chats # <<>> /\ tasks' = tasks
           /\ firings' = Append(firings, {r.chat_id : r \in {store[i] : i \in 1..Len(store)}})
    /\ UNCHANGED <<conv, user_data, partial, store, seq, now, reply, sent, count, failed, envvars>>

\* the tasks that may run next: the event loop runs them in any order
Runnable(i) == i \in 1..Len(tasks)

RemoveAt(s, i) == SubSeq(s, 1, i - 1) \o SubSeq(s, i + 1, Len(s))

\* a dispatch in which a failing task takes the tasks still waiting with it
send_weekly_or_abort(i) ==
    /\ Runnable(i)
    /\ LET t == tasks[i]
       IN  IF Delivers(t.chat)
           THEN /\ sent' = weekly_text(store, t.chat, now)
                /\ count' = [count EXCEPT ![t.firing][t.chat] = @ + 1]
                /\ tasks' = RemoveAt(tasks, i)
                /\ UNCHANGED failed
           ELSE /\ failed' = failed \cup {t}
                /\ tasks' = <<>>
                /\ UNCHANGED <<sent, count>>
    /\ UNCHANGED <<conv, user_data, partial, store, seq, now, reply, firings, envvars>>

\* one send_weekly_for_chat task runs: query, format, send
send_weekly_for_chat(i) ==
    /\ Runnable(i)
    /\ LET t == tasks[i]
       IN  IF Delivers(t.chat)
           THEN /\ sent' = weekly_text(store, t.chat, now)
                /\ count' = [count EXCEPT ![t.firing][t.chat] = @ + 1]
                /\ UNCHANGED failed
           ELSE /\ failed' = failed \cup {t}
                /\ UNCHANGED <<sent, count>>
    /\ tasks' = RemoveAt(tasks, i)
    /\ UNCHANGED <<conv, user_data, partial, store, seq, now, reply, firings, envvars>>

(***************************************************************************)
(* Updates no handler takes, the store's operations on their own, and the  *)
(* passing of time                                                         *)
(***************************************************************************)
\* ConversationHandler.check_update finds no handler: /add in a live
\* conversation, /skip outside ADD_DESC, /cancel or plain text without a
\* conversation.  Nothing runs.
unhandled(c, u, kind) ==
    /\ \/ kind = "add" /\ conv[<<c, u>>] # END
       \/ kind = "skip" /\ conv[<<c, u>>] # ADD_DESC
       \/ kind = "cancel" /\ conv[<<c, u>>] = END
       \/ kind = "text" /\ conv[<<c, u>>] = END
    /\ UNCHANGED vars

\* add_meeting called with the datetimes parse_dt makes of a text
Add(chat_id, title, description, text) ==
    /\ Parsed[text].start # None
    /\ seq < MaxId
    /\ store' = add_meeting(store, seq, chat_id, title, description, Parsed[text].start, Parsed[text].end, now)
    /\ seq' = seq + 1
    /\ UNCHANGED <<conv, user_data, partial, now, reply, sent, jobvars, envvars>>

\* delete_meeting called with an id
Delete(meeting_id) ==
    /\ store' = delete_meeting(store, meeting_id)
    /\ UNCHANGED <<conv, user_data, partial, seq, now, reply, sent, jobvars, envvars>>

\* update_meeting_field called with an id, a field name and a value; probe
\* keeps how the call ended
Update(meeting_id, field, value) ==
    /\ \E res \in {update_meeting_field(store, meeting_id, field, value)} :
           IF res.tag = "raise"
           THEN /\ probe' = [probe EXCEPT !.stage = "update", !.out = res]
                /\ UNCHANGED store
           ELSE /\ probe' = [probe EXCEPT !.stage = "update", !.out = None]
                /\ store' = res.rows
    /\ UNCHANGED <<conv, user_data, partial, seq, now, reply, sent, jobvars, broken, members>>

ClockKey(dt) == <<dt.year, dt.month, dt.day, dt.sec, dt.us>>

\* the wall clock moves on to a later time t
Tick(t) ==
    /\ LexLess(ClockKey(now), ClockKey(t))
    /\ now' = t
    /\ UNCHANGED <<conv, user_data, partial, store, seq, reply, sent, jobvars, envvars>>

(***************************************************************************)
(* A time input taken through parse_dt, add_meeting and fmt_meeting_row    *)
(***************************************************************************)
NoProbe == [text |-> <<>>, stage |-> "off", out |-> None, row |-> None, line |-> None]

Standup == <<"S", "t", "a", "n", "d", "u", "p">>

probe_parse ==
    /\ probe.stage = "input"
    /\ probe' = [probe EXCEPT !.stage = "parsed", !.out = parse_dt(probe.text)]
    /\ UNCHANGED <<conv, user_data, partial, store, seq, now, reply, sent, jobvars, broken, members>>

\* the row add_meeting inserts for the parsed pair, as a query selects it
probe_store ==
    /\ probe.stage = "parsed"
    /\ probe.out.start # None
    /\ probe' = [probe EXCEPT !.stage = "stored",
                              !.row = add_meeting(<<>>, 0, 1, Standup, <<>>, probe.out.start, probe.out.end, now)[1]]
    /\ UNCHANGED <<conv, user_data, partial, store, seq, now, reply, sent, jobvars, broken, members>>

probe_format ==
    /\ probe.stage = "stored"
    /\ probe' = [probe EXCEPT !.stage = "shown", !.line = fmt_meeting_row(probe.row)]
    /\ UNCHANGED <<conv, user_data, partial, store, seq, now, reply, sent, jobvars, broken, members>>

(***************************************************************************)
(* The program                                                             *)
(***************************************************************************)
\* the state after main() has built the application, at time t0
InitAt(t0) ==
    /\ conv = [k \in Keys |-> END]
    /\ user_data = [u \in Users |-> <<>>]
    /\ partial = [k \in Keys |-> <<>>]
    /\ store = <<>>
    /\ seq = 0
    /\ now = t0
    /\ reply = Reply(0, "", <<>>)
    /\ tasks = <<>>
    /\ firings = <<>>
    /\ sent = NoMessage
    /\ count = [f \in 1..MaxFirings |-> [c \in Chats |-> 0]]
    /\ failed = {}

\* The updates of the /add conversation and /delete, at one time of day.
\* (/start and /list are in SpecStore, /weekly and the weekly job in
\* SpecWeekly: they write none of conv, user_data, store, seq.)
Init ==
    /\ InitAt(Clock0)
    /\ broken = {}
    /\ members \in Memberships
    /\ probe = NoProbe

Next ==
    \/ \E k \in members : add_start(k[1], k[2])
    \/ \E k \in members, text \in Titles : add_title(k[1], k[2], text)
    \/ \E k \in members, text \in Descriptions : add_desc(k[1], k[2], text)
    \/ \E k \in members : add_skip_desc(k[1], k[2])
    \/ \E k \in members, text \in TimeTexts : add_start_dt(k[1], k[2], text)
    \/ \E k \in members : add_cancel(k[1], k[2])
    \/ \E k \in members, a \in DeleteArgs : delete_cmd(k[1], k[2], a)
    \/ \E k \in members, kind \in {"add", "skip", "cancel", "text"} : unhandled(k[1], k[2], kind)

Spec == Init /\ [][Next]_vars

\* a time input through the parser, the store and the formatter
InitParse ==
    /\ InitAt(Clock0)
    /\ broken = {}
    /\ members = {}
    /\ probe \in {[NoProbe EXCEPT !.text = t, !.stage = "input"] : t \in ParseTexts}

NextParse == probe_parse \/ probe_store \/ probe_format

SpecParse == InitParse /\ [][NextParse]_vars

\* the store's operations and queries
InitStore ==
    /\ InitAt(Clock0)
    /\ broken = {}
    /\ members = {<<1, 1>>, <<2, 2>>}
    /\ probe = NoProbe

NextStore ==
    \/ \E c \in Chats, text \in StoreTimes : Add(c, <<"a">>, <<>>, text)
    \/ \E i \in 1..MaxId : Delete(i)
    \/ \E k \in members : start(k[1], k[2])
    \/ \E k \in members : list_cmd(k[1], k[2])

SpecStore == InitStore /\ [][NextStore]_vars

\* one user's /add conversation in one chat, with time ranges whose end is
\* before the start and in the half hour Singapore's clocks skipped
InitFlow ==
    /\ InitAt(Clock0)
    /\ broken = {}
    /\ members = {<<1, 1>>}
    /\ probe = NoProbe

NextFlow ==
    \/ \E k \in members : add_start(k[1], k[2])
    \/ \E k \in members, text \in Titles : add_title(k[1], k[2], text)
    \/ \E k \in members, text \in Descriptions : add_desc(k[1], k[2], text)
    \/ \E k \in members : add_skip_desc(k[1], k[2])
    \/ \E k \in members, text \in FlowTimes : add_start_dt(k[1], k[2], text)
    \/ \E k \in members : add_cancel(k[1], k[2])

SpecFlow == InitFlow /\ [][NextFlow]_vars

\* the store's operations with update_meeting_field
NextUpdate ==
    \/ \E c \in Chats : Add(c, <<"a">>, <<>>, TxtStandup)
    \/ \E i \in 1..MaxId : Delete(i)
    \/ \E i \in 1..MaxId, in \in UpdateInputs : Update(i, in[1], in[2])

SpecUpdate == InitStore /\ [][NextUpdate]_vars

\* the range query, as /weekly makes it, at times around a meeting's start
NextRange ==
    \/ \E c \in Chats, text \in RangeTimes : Add(c, <<"a">>, <<>>, text)
    \/ \E k \in members : weekly_now(k[1], k[2])
    \/ \E t \in StoreClocks : Tick(t)

SpecRange == InitStore /\ [][NextRange]_vars

\* the digests, by /weekly and by the weekly job's tasks, at those times
NextDigest ==
    \/ \E c \in Chats, text \in RangeTimes : Add(c, <<"a">>, <<>>, text)
    \/ \E k \in members : weekly_now(k[1], k[2])
    \/ \E t \in StoreClocks : Tick(t)
    \/ scheduled_weekly_job
    \/ \E i \in DOMAIN tasks : send_weekly_for_chat(i)

SpecDigest == InitStore /\ [][NextDigest]_vars

\* the weekly job over the store
InitWeekly ==
    /\ InitAt(Clock0)
    /\ broken \in Breakages
    /\ members = {<<1, 1>>, <<2, 2>>}
    /\ probe = NoProbe

NextWeekly ==
    \/ \E c \in Chats, text \in WeeklyTimes : Add(c, <<"a">>, <<>>, text)
    \/ \E i \in 1..MaxId : Delete(i)
    \/ \E k \in members : weekly_now(k[1], k[2])
    \/ scheduled_weekly_job
    \/ \E i \in DOMAIN tasks : send_weekly_for_chat(i)
    \/ \E t \in ClockValues : Tick(t)

SpecWeekly == InitWeekly /\ [][NextWeekly]_vars

\* the event loop runs every task it holds
SpecWeeklyFair == SpecWeekly /\ WF_vars(\E i \in DOMAIN tasks : send_weekly_for_chat(i))

(***************************************************************************)
(* Properties of the conversation and /delete (Spec)                       *)
(***************************************************************************)
Rows(rows) == {rows[i] : i \in 1..Len(rows)}

\* the meeting id a /delete with these arguments names, None when they name
\* none (tabulated)
NamedId ==
    [a \in DeleteArgs |-> IF a = <<>> \/ int(a[1]) = Raised THEN None ELSE IntVal(IdValue(int(a[1])))]

\* the stored meeting a /delete with these arguments names, None when there
\* is none
Target(args) == IF NamedId[args] = None THEN None ELSE get_meeting(store, NamedId[args].v)

\* C1: a /delete <id> sent from a chat other than the one that owns meeting
\* id leaves the store as it was, and looking the id up afterwards still
\* gives the record.
C1_DeleteScopedToChat ==
    [][\A a \in DeleteArgs :
          Target(a) # None =>
              \A k \in members :
                  (Target(a).chat_id # k[1] /\ delete_cmd(k[1], k[2], a))
                      => /\ store' = store
                         /\ get_meeting(store', Target(a).id) = Target(a)]_vars

\* a /delete from chat c was just refused for a meeting of another chat,
\* which is still stored
C1_Witness ==
    /\ reply.text = "You can only delete meetings in this chat."
    /\ \E r \in Rows(store) : r.chat_id # reply.chat

\* C2: when a conversation commits, exactly one meeting is added; it belongs
\* to the conversation's chat and carries the title and the description that
\* this conversation was given (empty after /skip) and the parsed start and
\* end of the time text.
C2_CommitUsesSessionTexts ==
    [][\A k \in members, text \in TimeTexts :
          (add_start_dt(k[1], k[2], text) /\ conv'[k] = END)
              => /\ Len(store') = Len(store) + 1
                 /\ SubSeq(store', 1, Len(store)) = store
                 /\ LET r == store'[Len(store')]
                    IN  /\ r.chat_id = k[1]
                        /\ r.title = partial[k][1].title
                        /\ r.description = partial[k][1].description
                        /\ r.start_ts = isoformat(parse_dt(text).start)
                        /\ r.end_ts = isoformat(parse_dt(text).end)]_vars

\* C3: no chat has two live conversations.
C3_OneSessionPerChat ==
    \A c \in Chats : Cardinality({u \in Users : conv[<<c, u>>] # END}) <= 1

\* C4: a conversation waiting for the time range that is sent a well-formed
\* single timestamp "YYYY MM DD HHMM" commits a meeting with that start and
\* no end.
C4_SingleTimestampCommits ==
    [][\A k \in members, text \in TimeTexts :
          (/\ add_start_dt(k[1], k[2], text)
           /\ parse_single_dt(strip(text)) # None
           /\ user_data[k[2]] # <<>>
           /\ seq < MaxId)
              => /\ conv'[k] = END
                 /\ Len(store') = Len(store) + 1
                 /\ store'[Len(store')].start_ts = isoformat(parse_single_dt(strip(text)))
                 /\ store'[Len(store')].end_ts = None]_vars

(***************************************************************************)
(* Properties of the parser and the formatter (SpecParse)                  *)
(***************************************************************************)
\* a token of decimal digits only
AllDigits(tok) == tok # <<>> /\ \A i \in 1..Len(tok) : IsDigit(tok[i])

RECURSIVE Decimal(_)
Decimal(tok) == IF tok = <<>> THEN 0 ELSE 10 * Decimal(SubSeq(tok, 1, Len(tok) - 1)) + DigitVal(tok[Len(tok)])

\* HHMM: exactly four digits, a time of day
IsHHMM(tok) ==
    /\ Len(tok) = 4
    /\ AllDigits(tok)
    /\ Decimal(SubSeq(tok, 1, 2)) \in 0..23
    /\ Decimal(SubSeq(tok, 3, 4)) \in 0..59

\* "YYYY MM DD HHMM - HHMM": four numeric tokens before the "-", one HHMM
\* token after it, a calendar date and two times of day
WellFormedRange(text) ==
    LET tok == split(text)
    IN  /\ Len(tok) = 6
        /\ tok[5] = <<"-">>
        /\ \A i \in 1..3 : AllDigits(tok[i])
        /\ Decimal(tok[1]) \in MINYEAR..MAXYEAR
        /\ Decimal(tok[2]) \in 1..12
        /\ Decimal(tok[3]) \in 1..DaysInMonth(Decimal(tok[1]), Decimal(tok[2]))
        /\ IsHHMM(tok[4])
        /\ IsHHMM(tok[6])

\* C5: parse_dt gives the no-result pair (None, None) for every input that
\* is not a well-formed range, and raises for none.
C5_MalformedGivesNoResult ==
    (probe.stage # "input" /\ ~WellFormedRange(probe.text)) => probe.out = NoResult

\* C6: a well-formed range that was parsed, stored and formatted lists with
\* the year, month, day and both HHMM values it was entered with.
C6_RoundTrip ==
    (probe.stage = "shown" /\ WellFormedRange(probe.text))
        => probe.line # Raised /\ probe.line.when = probe.text

(***************************************************************************)
(* Properties of the store's queries (SpecRange, SpecStore)                *)
(***************************************************************************)
\* the UTC instant an ISO text denotes
Instant(ts) == AddSecs(<<ts.year, ts.month, ts.day, ts.sec>>, 0 - ts.off) \o <<ts.us>>

\* the start of row r lies in the closed interval [from, to] of datetimes
StartsWithin(r, from, to) ==
    \E a \in {Instant(isoformat(from))}, b \in {Instant(isoformat(to))}, x \in {Instant(r.start_ts)} :
        LexLeq(a, x) /\ LexLeq(x, b)

\* the meeting ids of a message's entries
EntryIds(body) == {body[i].head[1] : i \in 1..Len(body)}

\* C7: the range query made for chat c over [from, to] (here by /weekly, from
\* now to now + 7 days) returns exactly the meetings of c whose start lies
\* in the closed interval: both boundaries are included, a second outside
\* either of them is not.
C7_RangeQueryClosedInterval ==
    [][\A k \in members :
          weekly_now(k[1], k[2]) =>
              LET due == {r \in Rows(store) : r.chat_id = k[1] /\ StartsWithin(r, now, PlusWeek(now))}
              IN  /\ sent'.chat = k[1]
                  /\ sent'.at = now
                  /\ EntryIds(sent'.body) = {r.id : r \in due}
                  /\ Len(sent'.body) = Cardinality(due)]_vars

\* a digest made exactly one week before the 09:00 meeting starts lists it
C7_Witness ==
    /\ sent.at = DateTime(2024, 6, 3, 9 * 3600, 0)
    /\ \E i \in 1..Len(sent.body) : sent.body[i].when = TxtStandup

\* the stored start of the meeting with this id, as local date and time
StartOf(meeting_id) ==
    LET ts == get_meeting(store, meeting_id).start_ts
    IN  <<ts.year, ts.month, ts.day, ts.sec, ts.us>>

\* the meetings of chat c
Mine(c) == {r \in Rows(store) : r.chat_id = c}

\* /list has answered chat c with all of its meetings, each once
ListsAll(c) ==
    /\ reply'.text = "list"
    /\ Len(reply'.body) = Cardinality(Mine(c))
    /\ EntryIds(reply'.body) = {r.id : r \in Mine(c)}

\* the stored start of the i-th meeting of the answer
ListedStart(i) == StartOf(reply'.body[i].head[1])

Task(f, c) == [firing |-> f, chat |-> c]

\* the tasks of firing f for chat c that have not run yet
Pending(f, c) == Cardinality({i \in 1..Len(tasks) : tasks[i] = Task(f, c)})

\* C9: a firing of the weekly job dispatches one digest to each chat that
\* had a meeting stored when it fired and none to any other chat: for every
\* such chat there is one digest sent, one task still to run, or one task
\* whose query or send failed, and for every other chat there is nothing.
C9_OneDigestPerChat ==
    \A f \in 1..Len(firings), c \in Chats :
        count[f][c] + Pending(f, c) + (IF Task(f, c) \in failed THEN 1 ELSE 0)
            = (IF c \in firings[f] THEN 1 ELSE 0)

\* C10: when the query or the send of one chat's task of a firing has
\* failed, every other chat the firing enumerated whose own query and send
\* work receives its digest eventually.
C10_FailureDoesNotBlockOthers ==
    \A f \in 1..MaxFirings, c \in Chats :
        (/\ f <= Len(firings)
         /\ c \in firings[f]
         /\ c \notin broken
         /\ \E t \in failed : t.firing = f /\ t.chat # c)
            ~> (count[f][c] >= 1)

\* one chat's task of a firing failed and another chat of that firing has
\* its digest
C10_Witness ==
    \E f \in 1..Len(firings), c \in Chats, d \in Chats :
        /\ c # d
        /\ Task(f, c) \in failed
        /\ count[f][d] = 1

\* msg is the digest for chat c made of the store at the time now: it is
\* addressed to c, its entries are the meetings of c that start in
\* [now, now + 7 days], each once, numbered 1, 2, ... with starts ascending
IsDigest(msg, c) ==
    LET due == {r \in Rows(store) : r.chat_id = c /\ StartsWithin(r, now, PlusWeek(now))}
    IN  /\ msg.chat = c
        /\ msg.at = now
        /\ EntryIds(msg.body) = {r.id : r \in due}
        /\ Len(msg.body) = Cardinality(due)
        /\ \A i \in 1..Len(msg.body) :
               /\ msg.body[i].n = i
               /\ get_meeting(store, msg.body[i].head[1]).chat_id = c
        /\ \A i \in 1..(Len(msg.body) - 1) :
               \E x \in {Instant(get_meeting(store, msg.body[i].head[1]).start_ts)},
                  y \in {Instant(get_meeting(store, msg.body[i + 1].head[1]).start_ts)} :
                   LexLeq(x, y)

\* C11: every digest sent, by /weekly to the requesting chat or by a task of
\* the weekly job to its chat, lists exactly that chat's meetings whose
\* start lies in [now, now + 7 days], numbered in ascending order of start,
\* and no meeting of another chat.
C11_DigestListsOwnWeek ==
    [][/\ \A k \in members :
              (weekly_now(k[1], k[2]) /\ Delivers(k[1])) => IsDigest(sent', k[1])
       /\ \A i \in DOMAIN tasks :
              (send_weekly_for_chat(i) /\ Delivers(tasks[i].chat)) => IsDigest(sent', tasks[i].chat)]_vars

\* a digest lists two meetings of which the earlier was added last
C11_Witness ==
    /\ Len(sent.body) = 2
    /\ sent.body[1].head[1] > sent.body[2].head[1]
    /\ sent.body[1].when # sent.body[2].when

\* chat c has no meeting that starts in [now, now + 7 days]
NothingDue(c) == \A r \in Rows(store) : r.chat_id = c => ~StartsWithin(r, now, PlusWeek(now))

\* msg is the fixed message for a week without meetings
IsNoMeetings(msg) ==
    /\ msg.text = "No meetings scheduled for the next 7 days."
    /\ msg.text # ""
    /\ msg.body = <<>>

\* C12: a digest sent to a chat that has no meeting starting in the next 7
\* days, whether it has no meetings or only meetings before now or past the
\* window, is the fixed "no meetings" message and never an empty text.
C12_NoMeetingsMessage ==
    [][/\ \A k \in members :
              (weekly_now(k[1], k[2]) /\ Delivers(k[1]) /\ NothingDue(k[1]))
                  => sent'.chat = k[1] /\ IsNoMeetings(sent')
       /\ \A i \in DOMAIN tasks :
              (send_weekly_for_chat(i) /\ Delivers(tasks[i].chat) /\ NothingDue(tasks[i].chat))
                  => sent'.chat = tasks[i].chat /\ IsNoMeetings(sent')]_vars

\* the job found a meeting of a chat, and its task sent that chat the "no
\* meetings" message: the meeting starts before now or past the window
C12_Witness ==
    /\ IsNoMeetings(sent)
    /\ Len(firings) = 1
    /\ sent.chat \in firings[1]
    /\ count[1][sent.chat] = 1

\* the arguments name a number that is the id of no stored meeting
NamesNoMeeting(a) == a # <<>> /\ int(a[1]) # Raised /\ Target(a) = None

\* C13: a /delete <id> with an id that no stored meeting has is answered
\* with the not-found response and leaves the store as it was.
C13_UnknownIdNotFound ==
    [][\A a \in DeleteArgs :
          NamesNoMeeting(a) =>
              \A k \in members :
                  delete_cmd(k[1], k[2], a)
                      => /\ reply' = Reply(k[1], "No meeting with that ID.", <<>>)
                         /\ store' = store]_vars

(***************************************************************************)
(* Properties of the store's ids (SpecStore)                               *)
(***************************************************************************)
\* a meeting with this id is stored
Stored(i) == \E r \in Rows(store) : r.id = i

\* C14: the stored meetings have pairwise distinct ids at all times, and an
\* id that was stored and was deleted is never the id of a stored meeting
\* again, whatever is added afterwards.
C14_IdsNeverReused ==
    /\ [](\A i, j \in 1..Len(store) : store[i].id = store[j].id => i = j)
    /\ \A i \in 1..MaxId : [](Stored(i) => [](~Stored(i) => []~Stored(i)))

\* the first meeting's id is gone and the second meeting has the next id
C14_Witness ==
    /\ seq = 2
    /\ ~Stored(1)
    /\ Stored(2)

(***************************************************************************)
(* Properties of the steps of the /add conversation (Spec)                 *)
(***************************************************************************)
\* a text message of user k[2] in chat k[1] is taken by a step of the
\* conversation
TextTaken(k) ==
    \/ \E text \in Titles : add_title(k[1], k[2], text)
    \/ \E text \in Descriptions : add_desc(k[1], k[2], text)
    \/ \E text \in TimeTexts : add_start_dt(k[1], k[2], text)

\* C15: in each of the three waiting states a /cancel is taken; it ends the
\* conversation, discards the partial record and adds no meeting, and while
\* the conversation is ended no text is taken by any of its steps.
C15_CancelEndsSession ==
    /\ [](\A k \in members : conv[k] \in {ADD_TITLE, ADD_DESC, ADD_START} => ENABLED add_cancel(k[1], k[2]))
    /\ [][\A k \in members :
              /\ add_cancel(k[1], k[2])
                    => /\ conv[k] \in {ADD_TITLE, ADD_DESC, ADD_START}
                       /\ conv'[k] = END
                       /\ user_data'[k[2]] = <<>>
                       /\ partial'[k] = <<>>
                       /\ store' = store
                       /\ reply' = Reply(k[1], "Add cancelled.", <<>>)
              /\ conv[k] = END => ~TextTaken(k)]_vars

\* a conversation was cancelled after it was given a title and a description
C15_Witness ==
    \E k \in members :
        /\ reply = Reply(k[1], "Add cancelled.", <<>>)
        /\ conv[k] = END
        /\ user_data[k[2]] = <<>>
        /\ store = <<>>

\* the conversation of k was asked for the time range again
Reprompted(k) == partial[k] # <<>> /\ "reprompted" \in DOMAIN partial[k][1]

\* C16: a reply in ADD_START that does not parse leaves the conversation in
\* ADD_START with its title and description and the store as they were; a
\* valid range sent later in that conversation commits a meeting with the
\* title and the description the conversation was given; and add_title and
\* add_desc, when they answer a text, have accepted it.
C16_RetryKeepsFields ==
    [][\A k \in members :
          /\ \A text \in TimeTexts :
                 add_start_dt(k[1], k[2], text) =>
                     IF Parsed[strip(text)].start = None
                     THEN /\ conv'[k] = ADD_START
                          /\ user_data' = user_data
                          /\ partial'[k][1].title = partial[k][1].title
                          /\ partial'[k][1].description = partial[k][1].description
                          /\ store' = store
                     ELSE Reprompted(k) =>
                              /\ conv'[k] = END
                              /\ Len(store') = Len(store) + 1
                              /\ store'[Len(store')].chat_id = k[1]
                              /\ store'[Len(store')].title = partial[k][1].title
                              /\ store'[Len(store')].description = partial[k][1].description
          /\ \A text \in Titles :
                 (add_title(k[1], k[2], text) /\ reply' # NoReply(k[1])) => conv'[k] = ADD_DESC
          /\ \A text \in Descriptions :
                 (add_desc(k[1], k[2], text) /\ reply' # NoReply(k[1])) => conv'[k] = ADD_START]_vars

\* chat c has a live conversation
Live(c) == \E u \in Users : conv[<<c, u>>] # END

\* C17: a command without a transition in the current step changes nothing:
\* no /add starts a conversation in a chat that has a live one, no /skip is
\* taken outside ADD_DESC, no /cancel is taken without a live conversation,
\* and an update that no handler takes leaves the steps, the partial records
\* and the store as they were.
C17_NoTransitionNoEffect ==
    [][\A k \in members :
          /\ Live(k[1]) => ~add_start(k[1], k[2])
          /\ conv[k] # ADD_DESC => ~add_skip_desc(k[1], k[2])
          /\ conv[k] = END => ~add_cancel(k[1], k[2])
          /\ \A kind \in {"add", "skip", "cancel"} :
                 unhandled(k[1], k[2], kind)
                     => conv' = conv /\ user_data' = user_data /\ partial' = partial /\ store' = store]_vars

(***************************************************************************)
(* Properties of update_meeting_field (SpecUpdate)                         *)
(***************************************************************************)
\* C18: an update naming a field other than title, description, start_ts,
\* end_ts fails with the invalid-field error and leaves the store as it was;
\* an update naming one of these changes at most that field of the meeting
\* with that id; and no step of any operation changes the id, the chat_id
\* or the created_at of a meeting that stays stored.
C18_UpdateOnlyAllowedField ==
    [][/\ \A i \in 1..MaxId, in \in UpdateInputs :
              Update(i, in[1], in[2]) =>
                  IF in[1] \notin {"title", "description", "start_ts", "end_ts"}
                  THEN probe'.out = InvalidField /\ store' = store
                  ELSE /\ Len(store') = Len(store)
                       /\ \A n \in 1..Len(store), col \in Columns :
                              store'[n][col] # store[n][col] => store[n].id = i /\ col = in[1]
       /\ \A r \in Rows(store), q \in Rows(store') :
              q.id = r.id => q.chat_id = r.chat_id /\ q.created_at = r.created_at
       /\ \A q \in Rows(store') : (\E r \in Rows(store) : r.id = q.id) \/ q.id > seq]_vars

\* an update with a field that is not allowed was refused after an allowed
\* update had changed a title
C18_Witness ==
    /\ probe.stage = "update"
    /\ probe.out = InvalidField
    /\ \E r \in Rows(store) : r.title = <<"b">>

(***************************************************************************)
(* Properties of the partial record and of the committed times (Spec)      *)
(***************************************************************************)
\* C19: whenever a conversation waits for the description or for the time
\* range, the record its next handler reads, new_meeting in the user_data
\* of its user, exists and holds a title.
C19_PartialRecordExists ==
    \A k \in members :
        conv[k] \in {ADD_DESC, ADD_START}
            => user_data[k[2]] # <<>> /\ "title" \in DOMAIN user_data[k[2]][1]

\* the calendar date of a stored timestamp
DateOf(ts) == <<ts.year, ts.month, ts.day>>

\* C20: every meeting the conversation stores has a start, and an end, when
\* it has one, on the calendar date of the start; and a range whose end is
\* earlier in the day than its start is accepted and committed like any
\* other.
C20_EndOnStartDate ==
    [][/\ \A r \in Rows(store') :
              /\ r.start_ts # None
              /\ r.end_ts # None => DateOf(r.end_ts) = DateOf(r.start_ts)
       /\ \A k \in members :
              (add_start_dt(k[1], k[2], TxtLater) /\ user_data[k[2]] # <<>>)
                  => /\ conv'[k] = END
                     /\ Len(store') = Len(store) + 1
                     /\ store'[Len(store')].end_ts.sec < store'[Len(store')].start_ts.sec]_vars

\* a meeting from 09:30 to 09:00 was committed
C20_Witness ==
    /\ reply.text = "Meeting added"
    /\ store # <<>>
    /\ store[Len(store)].end_ts # None
    /\ store[Len(store)].end_ts.sec < store[Len(store)].start_ts.sec

====
